---- MODULE Spec2Model ----
(***************************************************************************)
(* A model of the GAT stock-return predictor (qlib/contrib/model/          *)
(* pytorch_gats.py) and of the two CSV ingestion scripts (private/         *)
(* toqlibdata.py, private/tominute.py).                                    *)
(*                                                                         *)
(* Six specifications share the variables below:                           *)
(*   Spec        construction, fit and predict of one GAT instance         *)
(*   SpecFit     the fit loop of a constructed instance, wider epochs      *)
(*   SpecBatch   the index batching of train_epoch, test_epoch, predict    *)
(*   SpecLoss    loss_fn / metric_fn on small prediction and label vectors *)
(*   SpecCov     cal_convariance on small hidden-state tensors             *)
(*   SpecIngest  the daily and the minute ingestion script                 *)
(***************************************************************************)
EXTENDS Integers, Sequences, FiniteSets, TLC

\* ------------------------------------------------------------------ bounds
MaxRows == 3      \* rows of a train / valid segment: 0..MaxRows
MaxTestRows == 5  \* rows of a test segment: 0..MaxTestRows
MaxBatch == 2     \* batch_size: 1..MaxBatch
MaxLoopBatch == 3 \* batch_size of one batching loop: 1..MaxLoopBatch
MaxStop == 2      \* early_stop: 1..MaxStop
MaxEpochs == 5    \* n_epochs: 1..MaxEpochs
MaxLen == 3       \* entries of a prediction / label vector: 0..MaxLen
MaxInstruments == 2 \* rows of a hidden-state batch: 1..MaxInstruments
HiddenSize == 2   \* hidden_size of the model instances of SpecCov
MaxSymbols == 3   \* symbols of an ingestion run: 1..MaxSymbols
MaxDates == 2     \* dates of a minute ingestion run: 1..MaxDates

\* --------------------------------------------------------------- variables
VARIABLES
    pc,           \* position of the instance: new, ctor_error, idle, loop, restore
    cfg,          \* the hyper-parameters __init__ stored on self
    fitted,       \* self._fitted
    params,       \* self.GAT_model.state_dict(), as a label: optimizer steps of this run
    best_param,   \* fit's local best_param: << >> while unbound, else << label >>
    best_score,   \* fit's local best_score
    best_epoch,   \* fit's local best_epoch
    stop_steps,   \* fit's local stop_steps
    step,         \* epochs of the running fit that have been executed
    evals_valid,  \* evals_result["valid"]
    ds,           \* rows of the train and valid segments of the running fit
    saved,        \* the checkpoint file at save_path
    completed,    \* whether some fit call on this instance has returned normally
    last,         \* outcome of the last call on the instance
    b_in,         \* SpecBatch: the call's input: rows n, batch size, the shuffle drawn
    b_call,       \* SpecBatch: the method that ran, "" before
    b_batches,    \* SpecBatch: the batches of row indices handed to the forward pass
    b_err,        \* SpecBatch: the exception the call raised, "" when it returned
    l_in,         \* SpecLoss: the prediction and label vectors
    l_call,       \* SpecLoss: the function that ran, "" before
    l_out,        \* SpecLoss: what it returned
    h_in,         \* SpecCov: the hidden-state batch, one row per instrument
    h_call,       \* SpecCov: "cal_convariance" once it has been called
    gamma,        \* SpecCov: the matrix cal_convariance(hidden, hidden) returned
    i_in,         \* SpecIngest: the script, the number of symbols and of dates
    i_pc,         \* SpecIngest: start, loop, done
    i_sym,        \* SpecIngest: position in symbols of the symbol being converted
    i_date,       \* SpecIngest: position in date_range of the date being read
    all_data,     \* SpecIngest: the minute script's all_data of the current symbol
    out_files,    \* SpecIngest: per symbol, the output CSV written (its rows)
    i_seen,       \* SpecIngest: the units (symbol, date) whose input has been read
    i_valid,      \* SpecIngest: those of them whose input file was a valid one
    i_reported    \* SpecIngest: the units an error message was printed for

fitVars == <<pc, cfg, fitted, params, best_param, best_score, best_epoch,
             stop_steps, step, evals_valid, ds, saved, completed, last>>

batchVars == <<b_in, b_call, b_batches, b_err>>
lossVars == <<l_in, l_call, l_out>>
covVars == <<h_in, h_call, gamma>>

ingestVars == <<i_in, i_pc, i_sym, i_date, all_data, out_files, i_seen, i_valid,
                i_reported>>

vars == <<fitVars, batchVars, lossVars, covVars, ingestVars>>

\* ------------------------------------------------------------------ floats
\* A float is NaN, +inf, -inf or a rational n/d in lowest terms (d > 0).
Fin(n) == [k |-> "fin", n |-> n, d |-> 1]
NaN == [k |-> "nan", n |-> 0, d |-> 1]
PosInf == [k |-> "inf", n |-> 0, d |-> 1]
NegInf == [k |-> "ninf", n |-> 0, d |-> 1]

Abs(i) == IF i < 0 THEN -i ELSE i

RECURSIVE Gcd(_, _)
Gcd(a, b) == IF b = 0 THEN a ELSE Gcd(b, a % b)

Rat(n, d) ==
    LET g == Gcd(Abs(n), d)
    IN  [k |-> "fin", n |-> n \div g, d |-> d \div g]

isnan(a) == a.k = "nan"
isfinite(a) == a.k = "fin"
Sign(a) == CASE a.k = "inf" -> 1
             [] a.k = "ninf" -> -1
             [] a.k = "fin" -> (IF a.n > 0 THEN 1 ELSE IF a.n < 0 THEN -1 ELSE 0)
             [] OTHER -> 0

\* a > b as IEEE floats compare: every comparison with NaN is false.
Gt(a, b) ==
    /\ ~isnan(a)
    /\ ~isnan(b)
    /\ CASE a.k = "inf" -> b.k # "inf"
         [] a.k = "ninf" -> FALSE
         [] b.k = "inf" -> FALSE
         [] b.k = "ninf" -> TRUE
         [] OTHER -> a.n * b.d > b.n * a.d

FNeg(a) == CASE a.k = "inf" -> NegInf
             [] a.k = "ninf" -> PosInf
             [] a.k = "fin" -> Rat(-a.n, a.d)
             [] OTHER -> NaN

FAdd(a, b) ==
    CASE isnan(a) \/ isnan(b) -> NaN
      [] isfinite(a) /\ isfinite(b) -> Rat(a.n * b.d + b.n * a.d, a.d * b.d)
      [] isfinite(a) -> b
      [] isfinite(b) -> a
      [] OTHER -> IF a.k = b.k THEN a ELSE NaN

FSub(a, b) == FAdd(a, FNeg(b))

FMul(a, b) ==
    CASE isnan(a) \/ isnan(b) -> NaN
      [] isfinite(a) /\ isfinite(b) -> Rat(a.n * b.n, a.d * b.d)
      [] OTHER -> IF Sign(a) * Sign(b) = 0 THEN NaN
                  ELSE IF Sign(a) * Sign(b) > 0 THEN PosInf ELSE NegInf

RECURSIVE FSum(_)
FSum(xs) == IF xs = << >> THEN Fin(0) ELSE FAdd(Head(xs), FSum(Tail(xs)))

\* torch.mean / np.mean of a 1-d vector: NaN for an empty one.
Mean(xs) ==
    IF xs = << >> THEN NaN
    ELSE LET s == FSum(xs)
         IN  IF isfinite(s) THEN Rat(s.n, s.d * Len(xs)) ELSE s

\* ----------------------------------------------------------------- vectors
\* numpy.arange(n): the row positions 0 .. n-1.
np_arange(n) == [i \in 1..n |-> i - 1]

\* Python's xs[i:j] for 0 <= i, with j clipped to len(xs).
Slice(xs, i, j) ==
    LET hi == IF j > Len(xs) THEN Len(xs) ELSE j
    IN  IF i >= hi THEN << >> ELSE [t \in 1..(hi - i) |-> xs[i + t]]

\* Boolean-mask indexing v[mask]: the entries of v whose mask is TRUE, in order.
RECURSIVE MaskSelect(_, _)
MaskSelect(v, mask) ==
    IF v = << >> THEN << >>
    ELSE IF Head(mask) THEN <<Head(v)>> \o MaskSelect(Tail(v), Tail(mask))
         ELSE MaskSelect(Tail(v), Tail(mask))

ZeroVec(n) == [i \in 1..n |-> Fin(0)]

\* ------------------------------------------------------------ loss, metric
\* GAT.mse: mean((pred - label) ** 2).
mse(pred, label) ==
    Mean([i \in 1..Len(pred) |->
            FMul(FSub(pred[i], label[i]), FSub(pred[i], label[i]))])

\* GAT.cal_ic: mean(pred * label).
cal_ic(pred, label) == Mean([i \in 1..Len(pred) |-> FMul(pred[i], label[i])])

\* The mask of loss_fn: ~torch.isnan(label).
LossMask(label) == [i \in 1..Len(label) |-> ~isnan(label[i])]

\* The mask of metric_fn: torch.isfinite(label).
MetricMask(label) == [i \in 1..Len(label) |-> isfinite(label[i])]

\* GAT.loss_fn; err is the exception raised, "" when it returns v.
loss_fn(pred, label, loss) ==
    LET mask == LossMask(label)
    IN  IF loss = "mse"
        THEN [err |-> "", v |-> mse(MaskSelect(pred, mask), MaskSelect(label, mask))]
        ELSE [err |-> "ValueError: unknown loss", v |-> NaN]

\* GAT.metric_fn.
metric_fn(pred, label, metric, loss) ==
    LET mask == MetricMask(label)
        p == MaskSelect(pred, mask)
        l == MaskSelect(label, mask)
    IN  IF metric = "IC" THEN [err |-> "", v |-> cal_ic(p, l)]
        ELSE IF metric = "" \/ metric = "loss"
        THEN LET r == loss_fn(p, l, loss)
             IN  [err |-> r.err, v |-> FNeg(r.v)]
        ELSE [err |-> "ValueError: unknown metric", v |-> NaN]

\* ----------------------------------------------------------------- forward
\* GATModel.forward on a batch x of rows.  out[i] stands for the score of row
\* x[i].  Both BatchNorm1d layers are built with track_running_stats=False, so
\* they normalise with the statistics of the batch in train and in eval mode
\* alike, and torch refuses a batch of one row; .squeeze() would besides turn a
\* [1, 1] output into a 0-d tensor.
BatchNormErr(rows) ==
    IF rows = 1 THEN "ValueError: Expected more than 1 value per channel" ELSE ""

forward(x) ==
    IF BatchNormErr(Len(x)) # ""
    THEN [err |-> BatchNormErr(Len(x)), out |-> << >>]
    ELSE [err |-> "", out |-> x]

\* ---------------------------------------------------------------- batching
\* Line 178 / 212: the trailing chunk is left out.
TailBreak(len, i, b) == len - i < b

\* The loop of train_epoch and test_epoch over range(len(indices))[::b]:
\* the batches of indices it processes, in order.
RECURSIVE EpochLoop(_, _, _)
EpochLoop(indices, b, i) ==
    IF i >= Len(indices) THEN << >>
    ELSE IF TailBreak(Len(indices), i, b) THEN << >>
         ELSE <<Slice(indices, i, i + b)>> \o EpochLoop(indices, b, i + b)

EpochBatches(indices, b) == EpochLoop(indices, b, 0)

\* The loop of predict over range(sample_num)[::b]: the [begin, end) slices.
\* Lines 302-305: the end of the slice that starts at begin.
SliceEndExtended(len, begin, b) == IF len - begin < 2 * b THEN len ELSE begin + b
SliceEnd(len, begin, b) == IF len - begin < b THEN len ELSE begin + b

RECURSIVE PredictLoop(_, _, _)
PredictLoop(rows, b, begin) ==
    IF begin >= Len(rows) THEN << >>
    ELSE LET end == SliceEnd(Len(rows), begin, b)
         IN  <<Slice(rows, begin, end)>> \o PredictLoop(rows, b, begin + b)

PredictBatches(rows, b) == PredictLoop(rows, b, 0)

\* Lines 169 / 200 and 182 / 216: the labels are one column of nrows values.
\* np.squeeze makes a single value a 0-dimensional array; train_epoch's * 100
\* (scaled) makes that a numpy scalar.  Indexing either with the batch's
\* indices raises.
LabelErr(nrows, scaled) ==
    IF nrows # 1 THEN ""
    ELSE IF scaled
    THEN "IndexError: invalid index to scalar variable."
    ELSE "IndexError: too many indices for array: array is 0-dimensional, but 1 were indexed"

\* The exception one batch of a segment of nrows rows raises, "" when it goes
\* through: the label indexing, forward, then loss_fn, then (test_epoch only)
\* metric_fn.  withMetric is FALSE for train_epoch, whose labels are scaled.
\* Features and labels are not part of the fit model, so the loss is taken on
\* placeholders.
BatchErr(batch, nrows, loss, metric, withMetric) ==
    LET f == forward(batch)
        z == ZeroVec(Len(batch))
        l == loss_fn(z, z, loss)
        m == metric_fn(z, z, metric, loss)
    IN  IF LabelErr(nrows, ~withMetric) # "" THEN LabelErr(nrows, ~withMetric)
        ELSE IF f.err # "" THEN f.err
        ELSE IF l.err # "" THEN l.err
        ELSE IF withMetric /\ m.err # "" THEN m.err
        ELSE ""

\* The loop body over the batches, up to the first exception: the exception,
\* the batches that went through, and the batches handed to the forward pass.
\* One more batch that went through, ahead of the outcome of the later ones.
Through(batch, rest) ==
    [err |-> rest.err, done |-> 1 + rest.done, calls |-> <<batch>> \o rest.calls]

RECURSIVE EpochRun(_, _, _, _, _)
EpochRun(batches, nrows, loss, metric, withMetric) ==
    IF batches = << >> THEN [err |-> "", done |-> 0, calls |-> << >>]
    ELSE IF BatchErr(Head(batches), nrows, loss, metric, withMetric) # ""
    THEN [err |-> BatchErr(Head(batches), nrows, loss, metric, withMetric),
          done |-> 0,
          calls |-> IF LabelErr(nrows, ~withMetric) # "" THEN << >> ELSE <<Head(batches)>>]
    ELSE Through(Head(batches), EpochRun(Tail(batches), nrows, loss, metric, withMetric))

\* GAT.train_epoch on shuffled indices: the exception, the optimizer steps
\* taken, and the batches handed to the forward pass.
train_epoch(indices, b, loss) ==
    LET r == EpochRun(EpochBatches(indices, b), Len(indices), loss, "IC", FALSE)
    IN  [err |-> r.err, steps |-> r.done, calls |-> r.calls]

\* GAT.test_epoch on shuffled indices, every batch scoring s: the exception,
\* np.mean(scores), and the batches handed to the forward pass.
test_epoch(indices, b, loss, metric, s) ==
    LET r == EpochRun(EpochBatches(indices, b), Len(indices), loss, metric, TRUE)
    IN  [err |-> r.err,
         score |-> Mean([i \in 1..r.done |-> s]),
         calls |-> r.calls]

\* ------------------------------------------------------------ construction
\* str.lower() on the optimizer names the model draws.
Lower(name) == CASE name = "Adam" -> "adam"
                 [] name = "GD" -> "gd"
                 [] OTHER -> name

NoCfg == [loss |-> "", optimizer |-> "", base_model |-> "", metric |-> "",
          batch_size |-> 0, early_stop |-> 0, n_epochs |-> 0]

NoDs == [n_train |-> 0, n_valid |-> 0]

\* The outcome of a call: the method, its row-count argument (predict), the
\* exception raised or the kind of result, and the value returned.
Result(call, n, kind, value) == [call |-> call, n |-> n, kind |-> kind, value |-> value]

\* The checkpoint file: absent, left by an earlier fit call, or written by the
\* fit call whose labels are current.
NoFile == [state |-> "absent", p |-> 0]
PrevFile == [state |-> "previous", p |-> 0]
CurFile(p) == [state |-> "current", p |-> p]

\* The exception GAT.__init__ raises for its arguments, "" when it returns:
\* the loss test, then GATModel.__init__ (the cell type), then the optimizer.
InitErr(c) ==
    IF c.loss \notin {"mse", "binary"}
    THEN "NotImplementedError: loss is not supported"
    ELSE IF c.base_model \notin {"GRU", "LSTM"}
    THEN "ValueError: unknown base model name"
    ELSE IF Lower(c.optimizer) \notin {"adam", "gd"}
    THEN "NotImplementedError: optimizer is not supported"
    ELSE ""

\* self.* after __init__ has returned.
StoredCfg(c) == [c EXCEPT !.optimizer = Lower(c.optimizer)]

\* GAT.__init__
GAT_init(c) ==
    /\ pc = "new"
    /\ IF InitErr(c) # ""
       THEN /\ pc' = "ctor_error"
            /\ last' = Result("init", 0, InitErr(c), << >>)
            /\ UNCHANGED <<cfg, fitted>>
       ELSE /\ pc' = "idle"
            /\ cfg' = StoredCfg(c)
            /\ fitted' = FALSE
            /\ last' = Result("init", 0, "constructed", << >>)
    /\ UNCHANGED <<params, best_param, best_score, best_epoch, stop_steps, step,
                   evals_valid, ds, saved, completed>>
    /\ UNCHANGED <<batchVars, lossVars, covVars, ingestVars>>

\* --------------------------------------------------------------------- fit
\* Lines 239-257: the segments are prepared, the run's locals are reset and
\* _fitted is set, before the first epoch.  The parameters the call starts
\* from become label 0 of this run.
fit_begin(n_train, n_valid) ==
    /\ pc = "idle"
    /\ ds' = [n_train |-> n_train, n_valid |-> n_valid]
    /\ stop_steps' = 0
    /\ best_score' = NegInf
    /\ best_epoch' = 0
    /\ best_param' = << >>
    /\ evals_valid' = << >>
    /\ step' = 0
    /\ fitted' = TRUE
    /\ params' = 0
    /\ saved' = IF saved = NoFile THEN NoFile ELSE PrevFile
    /\ last' = Result("fit", 0, "running", << >>)
    /\ pc' = IF cfg.n_epochs > 0 THEN "loop" ELSE "restore"
    /\ UNCHANGED <<cfg, completed>>
    /\ UNCHANGED <<batchVars, lossVars, covVars, ingestVars>>

\* Line 271: the validation score improves on the best one.
ImprovesOrTies(val_score, best) == ~isnan(val_score) /\ ~Gt(best, val_score)
Improves(val_score, best) == Gt(val_score, best)

\* Line 278: the patience is used up.
EarlyStopLate(stops, early_stop) == stops > early_stop
EarlyStop(stops, early_stop) == stops >= early_stop

\* Line 275: copy.deepcopy of the state dict, taken when the score improves.
Snapshot(p) == <<p>>

\* Lines 260-280: one iteration of the epoch loop.  s is the score every
\* validation batch of this epoch gets.  The training score is only logged and
\* appended to evals_result["train"], which fit never reads.
fit_epoch(s) ==
    /\ pc = "loop"
    /\ LET b == cfg.batch_size
           tr == train_epoch(np_arange(ds.n_train), b, cfg.loss)
           et == test_epoch(np_arange(ds.n_train), b, cfg.loss, cfg.metric, s)
           ev == test_epoch(np_arange(ds.n_valid), b, cfg.loss, cfg.metric, s)
           val_score == ev.score
           stops == stop_steps + 1
       IN  IF tr.err # ""
           THEN /\ pc' = "idle"
                /\ last' = Result("fit", 0, tr.err, << >>)
                /\ params' = params + tr.steps
                /\ UNCHANGED <<best_param, best_score, best_epoch,
                               stop_steps, step, evals_valid>>
           ELSE IF et.err # "" \/ ev.err # ""
           THEN /\ pc' = "idle"
                /\ last' = Result("fit", 0, IF et.err # "" THEN et.err ELSE ev.err, << >>)
                /\ params' = params + tr.steps
                /\ UNCHANGED <<best_param, best_score, best_epoch, stop_steps,
                               step, evals_valid>>
           ELSE /\ params' = params + tr.steps
                /\ evals_valid' = Append(evals_valid, val_score)
                /\ step' = step + 1
                /\ last' = last
                /\ IF Improves(val_score, best_score)
                   THEN /\ best_score' = val_score
                        /\ stop_steps' = 0
                        /\ best_epoch' = step
                        /\ best_param' = Snapshot(params')
                        /\ pc' = IF step + 1 < cfg.n_epochs THEN "loop" ELSE "restore"
                   ELSE /\ stop_steps' = stops
                        /\ UNCHANGED <<best_score, best_epoch, best_param>>
                        /\ pc' = IF EarlyStop(stops, cfg.early_stop) THEN "restore"
                                 ELSE IF step + 1 < cfg.n_epochs THEN "loop"
                                 ELSE "restore"
    /\ UNCHANGED <<cfg, fitted, ds, saved, completed>>
    /\ UNCHANGED <<batchVars, lossVars, covVars, ingestVars>>

\* Lines 282-287: load the best snapshot and write it to save_path.  A
\* best_param that was never assigned is an UnboundLocalError.
fit_finish ==
    /\ pc = "restore"
    /\ pc' = "idle"
    /\ IF best_param = << >>
       THEN /\ last' = Result("fit", 0, "UnboundLocalError: best_param", << >>)
            /\ UNCHANGED <<params, saved, completed>>
       ELSE /\ params' = best_param[1]
            /\ saved' = CurFile(best_param[1])
            /\ completed' = TRUE
            /\ last' = Result("fit", 0, "returned", << >>)
    /\ UNCHANGED <<cfg, fitted, best_param, best_score, best_epoch, stop_steps,
                   step, evals_valid, ds>>
    /\ UNCHANGED <<batchVars, lossVars, covVars, ingestVars>>

\* ----------------------------------------------------------------- predict
RECURSIVE PredictErr(_)
PredictErr(batches) ==
    IF batches = << >> THEN ""
    ELSE IF forward(Head(batches)).err # "" THEN forward(Head(batches)).err
         ELSE PredictErr(Tail(batches))

\* numpy.concatenate(preds)
RECURSIVE np_concatenate(_)
np_concatenate(preds) ==
    IF preds = << >> THEN << >> ELSE Head(preds) \o np_concatenate(Tail(preds))

\* GAT.predict on a test segment of n rows: the exception, or the scores
\* (each named by the row it was computed for) in the order returned.
predict_result(n, b, isFitted) ==
    LET batches == PredictBatches(np_arange(n), b)
        preds == [i \in 1..Len(batches) |-> forward(batches[i]).out]
    IN  IF ~isFitted
        THEN Result("predict", n, "ValueError: model is not fitted yet!", << >>)
        ELSE IF PredictErr(batches) # ""
        THEN Result("predict", n, PredictErr(batches), << >>)
        ELSE IF preds = << >>
        THEN Result("predict", n, "ValueError: need at least one array to concatenate", << >>)
        ELSE Result("predict", n, "scores", np_concatenate(preds))

predict(n) ==
    /\ pc = "idle"
    /\ last' = predict_result(n, cfg.batch_size, fitted)
    /\ UNCHANGED <<pc, cfg, fitted, params, best_param, best_score, best_epoch,
                   stop_steps, step, evals_valid, ds, saved, completed>>
    /\ UNCHANGED <<batchVars, lossVars, covVars, ingestVars>>

\* ------------------------------------------------- batching, on its own
\* The permutations of 0 .. n-1: what np.random.shuffle can leave in indices.
Shuffles(n) ==
    {p \in [1..n -> 0..(n - 1)] : \A i, j \in 1..n : i # j => p[i] # p[j]}

BatchIdle ==
    /\ b_in = [n |-> 0, batch_size |-> 1, shuffle |-> << >>]
    /\ b_call = ""
    /\ b_batches = << >>
    /\ b_err = ""

\* One call of train_epoch (mse loss) on a segment of b_in.n rows: the batches
\* it hands to the forward pass, the exception it raises, and one optimizer
\* step on the parameters for every batch that went through.
train_epoch_batches ==
    /\ b_call = ""
    /\ b_call' = "train_epoch"
    /\ LET r == train_epoch(b_in.shuffle, b_in.batch_size, "mse")
       IN  /\ b_batches' = r.calls
           /\ b_err' = r.err
           /\ params' = params + r.steps
    /\ UNCHANGED b_in
    /\ UNCHANGED <<pc, cfg, fitted, best_param, best_score, best_epoch, stop_steps,
                   step, evals_valid, ds, saved, completed, last>>
    /\ UNCHANGED <<lossVars, covVars, ingestVars>>

\* One call of test_epoch (mse loss, IC metric) on a segment of b_in.n rows:
\* the batches it hands to the forward pass and the exception it raises.
test_epoch_batches ==
    /\ b_call = ""
    /\ b_call' = "test_epoch"
    /\ LET r == test_epoch(b_in.shuffle, b_in.batch_size, "mse", "IC", Fin(1))
       IN  /\ b_batches' = r.calls
           /\ b_err' = r.err
    /\ UNCHANGED b_in
    /\ UNCHANGED <<fitVars, lossVars, covVars, ingestVars>>

\* The slices of predict's loop that reach the forward pass: the loop ends at
\* the first pass that raises.
RECURSIVE ForwardCalls(_)
ForwardCalls(batches) ==
    IF batches = << >> THEN << >>
    ELSE IF forward(Head(batches)).err # "" THEN <<Head(batches)>>
         ELSE <<Head(batches)>> \o ForwardCalls(Tail(batches))

\* Lines 297-320 of predict on a fitted instance: the row slices one call runs
\* the forward pass on, in order (no shuffle), and the exception it raises.
predict_batches ==
    /\ b_call = ""
    /\ b_call' = "predict"
    /\ b_batches' = ForwardCalls(PredictBatches(np_arange(b_in.n), b_in.batch_size))
    /\ b_err' = LET r == predict_result(b_in.n, b_in.batch_size, TRUE)
                IN  IF r.kind = "scores" THEN "" ELSE r.kind
    /\ UNCHANGED b_in
    /\ UNCHANGED <<fitVars, lossVars, covVars, ingestVars>>

\* ------------------------------------------------------ loss, on its own
LossIdle ==
    /\ l_in = [pred |-> << >>, label |-> << >>]
    /\ l_call = ""
    /\ l_out = [err |-> "", v |-> NaN]

call_loss_fn ==
    /\ l_call = ""
    /\ l_call' = "loss_fn"
    /\ l_out' = loss_fn(l_in.pred, l_in.label, "mse")
    /\ UNCHANGED l_in
    /\ UNCHANGED <<fitVars, batchVars, covVars, ingestVars>>

call_metric_fn(metric) ==
    /\ l_call = ""
    /\ l_call' = "metric_fn"
    /\ l_out' = metric_fn(l_in.pred, l_in.label, metric, "mse")
    /\ UNCHANGED l_in
    /\ UNCHANGED <<fitVars, batchVars, covVars, ingestVars>>

\* ------------------------------------------------------- similarity gate
\* torch.mean(x, dim=1): the mean of every row.
RowMeans(x) == [i \in 1..Len(x) |-> Mean(x[i])]

\* Line 360: e_x.mm(torch.t(e_y)), the outer product of the row means.
OuterSameRow(e_x, e_y) ==
    [i \in 1..Len(e_x) |-> [j \in 1..Len(e_y) |-> FMul(e_x[i], e_x[i])]]
Outer(e_x, e_y) ==
    [i \in 1..Len(e_x) |-> [j \in 1..Len(e_y) |-> FMul(e_x[i], e_y[j])]]

\* GATModel.cal_convariance(x, y): mean(x_i * y_j) - mean(x_i) * mean(y_j).
cal_convariance(x, y) ==
    LET e_x == RowMeans(x)
        e_y == RowMeans(y)
        e_x_e_y == Outer(e_x, e_y)
        e_xy == [i \in 1..Len(x) |-> [j \in 1..Len(y) |->
                    Mean([t \in 1..Len(x[i]) |-> FMul(x[i][t], y[j][t])])]]
    IN  [i \in 1..Len(x) |-> [j \in 1..Len(y) |-> FSub(e_xy[i][j], e_x_e_y[i][j])]]

CovIdle ==
    /\ h_in = << >>
    /\ h_call = ""
    /\ gamma = << >>

\* One call cal_convariance(hidden, hidden), the call of line 374, on the
\* tensor h_in.
call_cal_convariance ==
    /\ h_call = ""
    /\ h_call' = "cal_convariance"
    /\ gamma' = cal_convariance(h_in, h_in)
    /\ UNCHANGED h_in
    /\ UNCHANGED <<fitVars, batchVars, lossVars, ingestVars>>

\* --------------------------------------------------------------- ingestion
\* An input CSV: whether it exists, its header, and whether pd.to_datetime
\* parses its Date column.  Every file holds one row, named by its unit.
FullHeader == {"Date", "Open", "High", "Low", "Close", "Volume"}
InputFiles ==
    [exists : BOOLEAN,
     cols : {FullHeader,
             FullHeader \ {"Date"},
             FullHeader \ {"Volume"},
             {"Date", "open", "high", "low", "close", "volume"}},
     parse : BOOLEAN]

\* DataFrame.rename(columns={'Open': 'open', ...}).
RenameColumn(c) == CASE c = "Open" -> "open"
                     [] c = "High" -> "high"
                     [] c = "Low" -> "low"
                     [] c = "Close" -> "close"
                     [] c = "Volume" -> "volume"
                     [] OTHER -> c

required_columns == {"open", "high", "low", "close", "volume"}

\* The body of the try block on one input file: the exception it raises, ""
\* when the file is converted.
ConvertFile(f) ==
    IF ~f.exists THEN "FileNotFoundError"
    ELSE IF "Date" \notin f.cols THEN "KeyError: the timestamp column 'Date' is missing"
    ELSE IF ~f.parse THEN "ValueError: error processing the date column"
    ELSE LET renamed == {RenameColumn(c) : c \in f.cols \cup {"date"}}
             missing_columns == required_columns \ renamed
         IN  IF missing_columns # {} THEN "KeyError: required columns are missing"
             ELSE ""

\* The except clauses print and fall through to the next iteration.
AbortAfterError(pos, len) == len + 1
AfterError(pos, len) == pos + 1

NoOutput == [written |-> FALSE, rows |-> << >>]
Written(rows) == [written |-> TRUE, rows |-> rows]

IngestIdle ==
    /\ i_in = [script |-> "", n_symbols |-> 0, n_dates |-> 0]
    /\ i_pc = "done"
    /\ i_sym = 1
    /\ i_date = 1
    /\ all_data = << >>
    /\ out_files = << >>
    /\ i_seen = {}
    /\ i_valid = {}
    /\ i_reported = {}

\* Lines 5-11 of both scripts: the output directory is made; a PermissionError
\* ends the run.
ingest_start(dir_ok) ==
    /\ i_pc = "start"
    /\ i_pc' = IF dir_ok THEN "loop" ELSE "done"
    /\ UNCHANGED <<i_in, i_sym, i_date, all_data, out_files, i_seen, i_valid, i_reported>>
    /\ UNCHANGED <<fitVars, batchVars, lossVars, covVars>>

\* convert_polygon_to_qlib, lines 13-67: one iteration of the symbol loop on
\* the input file f of the symbol.
convert_polygon_to_qlib(f) ==
    /\ i_pc = "loop"
    /\ i_in.script = "daily"
    /\ LET unit == <<i_sym, 1>>
           err == ConvertFile(f)
           nxt == IF err = "" THEN i_sym + 1 ELSE AfterError(i_sym, i_in.n_symbols)
       IN  /\ i_seen' = i_seen \cup {unit}
           /\ i_valid' = IF err = "" THEN i_valid \cup {unit} ELSE i_valid
           /\ i_reported' = IF err = "" THEN i_reported ELSE i_reported \cup {unit}
           /\ out_files' = IF err = "" THEN [out_files EXCEPT ![i_sym] = Written(<<unit>>)]
                           ELSE out_files
           /\ i_sym' = nxt
           /\ i_pc' = IF nxt > i_in.n_symbols THEN "done" ELSE "loop"
    /\ UNCHANGED <<i_in, i_date, all_data>>
    /\ UNCHANGED <<fitVars, batchVars, lossVars, covVars>>

\* convert_polygon_to_qlib_minute, lines 21-77: one iteration of the date loop
\* on the input file f of the symbol and date; after the symbol's last date the
\* collected frames are concatenated and written, when there is any.
convert_polygon_to_qlib_minute(f) ==
    /\ i_pc = "loop"
    /\ i_in.script = "minute"
    /\ LET unit == <<i_sym, i_date>>
           err == ConvertFile(f)
           data == IF err = "" THEN Append(all_data, unit) ELSE all_data
           nxt == IF err = "" THEN i_date + 1 ELSE AfterError(i_date, i_in.n_dates)
           endOfSymbol == nxt > i_in.n_dates
       IN  /\ i_seen' = i_seen \cup {unit}
           /\ i_valid' = IF err = "" THEN i_valid \cup {unit} ELSE i_valid
           /\ i_reported' = IF err = "" THEN i_reported ELSE i_reported \cup {unit}
           /\ IF endOfSymbol
              THEN /\ out_files' = IF data # << >>
                                   THEN [out_files EXCEPT ![i_sym] = Written(data)]
                                   ELSE out_files
                   /\ all_data' = << >>
                   /\ i_date' = 1
                   /\ i_sym' = i_sym + 1
                   /\ i_pc' = IF i_sym + 1 > i_in.n_symbols THEN "done" ELSE "loop"
              ELSE /\ all_data' = data
                   /\ i_date' = nxt
                   /\ UNCHANGED <<out_files, i_sym, i_pc>>
    /\ UNCHANGED i_in
    /\ UNCHANGED <<fitVars, batchVars, lossVars, covVars>>

\* ---------------------------------------------------------- specifications
\* The score a validation batch can get: NaN, or one of three finite levels.
Scores == {NaN, Fin(1), Fin(2), Fin(3)}

\* Every selector combination, with short runs.
SelectorConfigs ==
    [loss : {"mse", "binary", "huber"},
     optimizer : {"adam", "Adam", "gd", "sgd"},
     base_model : {"GRU", "LSTM", "RNN"},
     metric : {"IC", "loss", "", "acc"},
     batch_size : 1..MaxBatch,
     early_stop : {1},
     n_epochs : {1, 2}]

\* The default selectors, with every patience and run length.
LoopConfigs ==
    [loss : {"mse"}, optimizer : {"adam"}, base_model : {"GRU"}, metric : {"IC"},
     batch_size : 1..MaxBatch,
     early_stop : 1..MaxStop,
     n_epochs : 1..MaxEpochs]

InitFit ==
    /\ pc = "new"
    /\ cfg = NoCfg
    /\ fitted = FALSE
    /\ params = 0
    /\ best_param = << >>
    /\ best_score = NegInf
    /\ best_epoch = 0
    /\ stop_steps = 0
    /\ step = 0
    /\ evals_valid = << >>
    /\ ds = NoDs
    /\ saved = NoFile
    /\ completed = FALSE
    /\ last = Result("", 0, "", << >>)

Init == InitFit /\ BatchIdle /\ LossIdle /\ CovIdle /\ IngestIdle

Fit ==
    \/ \E n_train \in 0..MaxRows, n_valid \in 0..MaxRows : fit_begin(n_train, n_valid)
    \/ \E s \in Scores : fit_epoch(s)
    \/ fit_finish

Next ==
    \/ \E c \in SelectorConfigs : GAT_init(c)
    \/ Fit
    \/ \E n \in 0..MaxTestRows : predict(n)

Spec == Init /\ [][Next]_vars

NextFit ==
    \/ \E c \in LoopConfigs : GAT_init(c)
    \/ Fit

SpecFit == Init /\ [][NextFit]_vars

\* The batching of one call, for every size, batch size and shuffle.
InitBatch ==
    /\ InitFit /\ LossIdle /\ CovIdle /\ IngestIdle
    /\ \E n \in 0..MaxTestRows, b \in 1..MaxLoopBatch :
           \E p \in Shuffles(n) : b_in = [n |-> n, batch_size |-> b, shuffle |-> p]
    /\ b_call = ""
    /\ b_batches = << >>
    /\ b_err = ""

NextBatch ==
    \/ train_epoch_batches
    \/ test_epoch_batches
    \/ predict_batches

SpecBatch == InitBatch /\ [][NextBatch]_vars

\* loss_fn and metric_fn on every small prediction and label vector.
PredValues == {Fin(1), Fin(3)}
LabelValues == {NaN, PosInf, NegInf, Fin(1), Fin(2)}

InitLoss ==
    /\ InitFit /\ BatchIdle /\ CovIdle /\ IngestIdle
    /\ \E n \in 0..MaxLen :
           \E p \in [1..n -> PredValues], l \in [1..n -> LabelValues] :
               l_in = [pred |-> p, label |-> l]
    /\ l_call = ""
    /\ l_out = [err |-> "", v |-> NaN]

NextLoss ==
    \/ call_loss_fn
    \/ \E metric \in {"IC", "loss", ""} : call_metric_fn(metric)

SpecLoss == InitLoss /\ [][NextLoss]_vars

\* cal_convariance on every small tensor of hidden states.
HiddenValues == {Fin(-1), Fin(0), Fin(1)}

InitCov ==
    /\ InitFit /\ BatchIdle /\ LossIdle /\ IngestIdle
    /\ \E n \in 1..MaxInstruments :
           h_in \in [1..n -> [1..HiddenSize -> HiddenValues]]
    /\ h_call = ""
    /\ gamma = << >>

NextCov == call_cal_convariance

SpecCov == InitCov /\ [][NextCov]_vars

\* Either script on every number of symbols (and dates), every input file.
InitIngest ==
    /\ InitFit /\ BatchIdle /\ LossIdle /\ CovIdle
    /\ \E n \in 1..MaxSymbols :
           \/ i_in = [script |-> "daily", n_symbols |-> n, n_dates |-> 1]
           \/ \E m \in 1..MaxDates : i_in = [script |-> "minute", n_symbols |-> n, n_dates |-> m]
    /\ i_pc = "start"
    /\ i_sym = 1
    /\ i_date = 1
    /\ all_data = << >>
    /\ out_files = [s \in 1..i_in.n_symbols |-> NoOutput]
    /\ i_seen = {}
    /\ i_valid = {}
    /\ i_reported = {}

NextIngest ==
    \/ \E dir_ok \in BOOLEAN : ingest_start(dir_ok)
    \/ \E f \in InputFiles : convert_polygon_to_qlib(f)
    \/ \E f \in InputFiles : convert_polygon_to_qlib_minute(f)

SpecIngest == InitIngest /\ [][NextIngest]_vars

\* ------------------------------------------------- claims on fit, predict
\* Epoch j of the score history h strictly improves on every earlier score
\* (NaN never improves and is never improved on; the start is -inf).
ImprovesAt(h, j) ==
    /\ ~isnan(h[j])
    /\ Gt(h[j], NegInf)
    /\ \A i \in 1..(j - 1) : isnan(h[i]) \/ Gt(h[j], h[i])

\* The k epochs ending with epoch t all failed to improve.
KFails(h, t, k) == t >= k /\ \A j \in (t - k + 1)..t : ~ImprovesAt(h, j)

\* The earliest epoch holding the highest score of h; 0 when no score counts.
BestEpochOf(h) ==
    LET best == {j \in 1..Len(h) :
                    /\ ImprovesAt(h, j)
                    /\ \A i \in 1..Len(h) : isnan(h[i]) \/ ~Gt(h[i], h[j])}
    IN  IF best = {} THEN 0 ELSE CHOOSE j \in best : TRUE

\* The parameters at the end of epoch e of the running fit: every epoch takes
\* one optimizer step per full training batch.
ParamsAfterEpoch(e) == e * (ds.n_train \div cfg.batch_size)

\* C1: the epoch loop stops right after the first epoch that ends early_stop
\* consecutive non-improving epochs, and otherwise after exactly n_epochs
\* epochs: no epoch runs after such an epoch, the loop goes on only below
\* n_epochs with the patience not used up, and it is left only for one of the
\* two reasons.
C1_EarlyStopHalts ==
    pc \in {"loop", "restore"} =>
        LET h == evals_valid
            n == Len(h)
        IN  /\ step = n
            /\ n <= cfg.n_epochs
            /\ \A t \in 1..(n - 1) : ~KFails(h, t, cfg.early_stop)
            /\ pc = "loop" => n < cfg.n_epochs /\ ~KFails(h, n, cfg.early_stop)
            /\ pc = "restore" => n = cfg.n_epochs \/ KFails(h, n, cfg.early_stop)

\* C1 witness: scores rising to a peak at epoch 2 and then failing twice, with
\* early_stop = 2 and n_epochs = 5: the loop is left after the 4th epoch.
C1_Witness ==
    /\ pc = "restore"
    /\ cfg.early_stop = 2
    /\ cfg.n_epochs = 5
    /\ evals_valid = <<Fin(1), Fin(3), Fin(2), Fin(1)>>

\* C2: when fit returns, the in-memory parameters and the checkpoint file are
\* the parameters as they were at the end of the earliest epoch holding the
\* run's highest validation score; and while the loop runs, the snapshot it
\* holds is that of the best epoch so far, whatever later epochs trained.
C2_BestCheckpointRestored ==
    /\ pc \in {"loop", "restore"} /\ best_param # << >> =>
           /\ BestEpochOf(evals_valid) >= 1
           /\ best_param[1] = ParamsAfterEpoch(BestEpochOf(evals_valid))
           /\ best_epoch = BestEpochOf(evals_valid) - 1
    /\ pc = "idle" /\ last.call = "fit" /\ last.kind = "returned" =>
           /\ BestEpochOf(evals_valid) >= 1
           /\ params = ParamsAfterEpoch(BestEpochOf(evals_valid))
           /\ saved = CurFile(ParamsAfterEpoch(BestEpochOf(evals_valid)))

\* C2 witness: fit has returned from a run that trained at least one batch per
\* epoch, whose best score was tied by a later epoch and was not the last one.
C2_Witness ==
    /\ pc = "idle" /\ last.call = "fit" /\ last.kind = "returned"
    /\ ds.n_train >= cfg.batch_size
    /\ BestEpochOf(evals_valid) < Len(evals_valid)
    /\ \E j \in (BestEpochOf(evals_valid) + 1)..Len(evals_valid) :
           evals_valid[j] = evals_valid[BestEpochOf(evals_valid)]
    /\ params = ParamsAfterEpoch(BestEpochOf(evals_valid))
    /\ params < ParamsAfterEpoch(Len(evals_valid))

\* C3 (the claim as stated): predict on a model whose fit has returned and a test segment of
\* n >= 1 rows returns n scores, the i-th being the score of row i.
C3_PredictScoresEveryRow ==
    last.call = "predict" /\ completed /\ last.n >= 1 =>
        last.kind = "scores" /\ last.value = np_arange(last.n)

\* C4 (the claim as stated): predict returns scores only after some fit call
\* on the instance has returned normally.
C4_PredictNeedsCompletedFit ==
    last.call = "predict" /\ last.kind = "scores" => completed

\* C6 (the claim as stated): from the end of the first epoch on a best
\* checkpoint exists, so the restore step always has one to load.
C6_CheckpointAfterFirstEpoch ==
    pc \in {"loop", "restore"} /\ step >= 1 => best_param # << >>

\* C8 (the claim as stated): an instance exists only for supported selectors,
\* and fit never meets a loss selector without a loss computation.
C8_ConfigErrorsAtConstruction ==
    /\ pc \notin {"new", "ctor_error"} =>
           /\ cfg.base_model \in {"GRU", "LSTM"}
           /\ cfg.optimizer \in {"adam", "gd"}
           /\ cfg.loss \in {"mse", "binary"}
    /\ ~(last.call = "fit" /\ last.kind = "ValueError: unknown loss")

\* ------------------------------------------------------ claims on batching
\* C5 (the claim as stated): one call of train_epoch or test_epoch on n rows
\* with batch size b goes through without an exception and processes exactly
\* n \div b batches of exactly b indices, batch k being entries
\* (k-1)b+1 .. kb of the one shuffle, so no index is in two batches and the
\* last n % b entries of the shuffle are in none.
C5_FullBatchesOnly ==
    b_call \in {"train_epoch", "test_epoch"} =>
        LET n == b_in.n
            b == b_in.batch_size
            sh == b_in.shuffle
        IN  /\ b_err = ""
            /\ Len(b_batches) = n \div b
            /\ \A k \in 1..Len(b_batches) :
                   /\ Len(b_batches[k]) = b
                   /\ \A t \in 1..b : b_batches[k][t] = sh[(k - 1) * b + t]
            /\ \A k1, k2 \in 1..Len(b_batches) : \A t1, t2 \in 1..b :
                   b_batches[k1][t1] = b_batches[k2][t2] => k1 = k2 /\ t1 = t2
            /\ \A i \in (n - (n % b) + 1)..n :
                   \A k \in 1..Len(b_batches) : \A t \in 1..b : b_batches[k][t] # sh[i]
            /\ b_call = "train_epoch" => params = n \div b

\* The rows lo .. hi-1, as predict's x_values[lo:hi] holds them.
RowRange(lo, hi) == [t \in 1..(hi - lo) |-> lo + t - 1]

Min(a, b) == IF a < b THEN a ELSE b

\* C11 (the claim as stated, for the calls in which no forward pass raises):
\* for n >= b rows the forward pass runs n \div b times, the last run on
\* b + n % b rows, so no run gets fewer than b rows; for 1 <= n < b there is
\* one run on all n rows.
C11_LastBatchExtended ==
    /\ b_call = "predict"
    /\ b_in.n >= 1
    /\ \A k \in 1..Len(b_batches) : forward(b_batches[k]).err = ""
    =>
        LET n == b_in.n
            b == b_in.batch_size
            runs == Len(b_batches)
        IN  IF n >= b
            THEN /\ runs = n \div b
                 /\ Len(b_batches[runs]) = b + (n % b)
                 /\ \A k \in 1..runs : Len(b_batches[k]) >= b
            ELSE b_batches = <<np_arange(n)>>

\* C11 (amended): predict's loop cuts the rows, in input order, into
\* ceil(n/b) contiguous slices, slice k being rows (k-1)b .. min(kb, n)-1:
\* every slice but the last has b rows and the last has the remaining
\* n - (ceil(n/b) - 1) b rows, fewer than b when b does not divide n.  The
\* forward pass runs on the slices in that order, once each, up to and
\* including the first slice of one row, on which it raises.
C11_TailIsOwnBatch ==
    b_call = "predict" =>
        LET n == b_in.n
            b == b_in.batch_size
            slices == (n + b - 1) \div b
            runs == Len(b_batches)
        IN  /\ runs <= slices
            /\ \A k \in 1..runs : b_batches[k] = RowRange((k - 1) * b, Min(k * b, n))
            /\ \A k \in 1..runs : Len(b_batches[k]) = IF k < slices THEN b
                                                      ELSE n - (slices - 1) * b
            /\ \A k \in 1..(runs - 1) : Len(b_batches[k]) # 1
            /\ runs < slices => Len(b_batches[runs]) = 1

\* C11 witness: 5 rows with batch_size 3: two forward passes, on rows 0-2
\* and on the two remaining rows 3-4.
C11_Witness ==
    /\ b_call = "predict"
    /\ b_in.n = 5
    /\ b_in.batch_size = 3
    /\ b_batches = <<(<<0, 1, 2>>), (<<3, 4>>)>>

\* ---------------------------------------------------------- claims on loss
\* The entries of v whose label is finite.
FiniteOnly(v, label) ==
    MaskSelect(v, [i \in 1..Len(label) |-> label[i].k = "fin"])

\* C7 (the claim as stated): loss_fn and metric_fn compute their result over
\* exactly the entries whose label is finite.
C7_FiniteLabelsOnly ==
    LET p == FiniteOnly(l_in.pred, l_in.label)
        l == FiniteOnly(l_in.label, l_in.label)
    IN  /\ l_call = "loss_fn" => l_out = [err |-> "", v |-> mse(p, l)]
        /\ l_call = "metric_fn" =>
               l_out \in {[err |-> "", v |-> cal_ic(p, l)],
                          [err |-> "", v |-> FNeg(mse(p, l))]}

\* ----------------------------------------------- claims on the similarity gate
\* C10: for a batch H of N rows, the matrix cal_convariance(H, H) returns
\* is N x N, its entry [i][j] is mean(H_i * H_j) - mean(H_i) * mean(H_j), and
\* [i][j] = [j][i] for all i, j, diagonal included.
C10_GateSymmetric ==
    h_call = "cal_convariance" =>
        LET n == Len(h_in)
        IN  /\ Len(gamma) = n
            /\ \A i \in 1..n : Len(gamma[i]) = n
            /\ \A i, j \in 1..n :
                   /\ gamma[i][j] = gamma[j][i]
                   /\ gamma[i][j] =
                        FSub(Mean([t \in 1..HiddenSize |-> FMul(h_in[i][t], h_in[j][t])]),
                             FMul(Mean(h_in[i]), Mean(h_in[j])))

\* C10 witness: a batch of two different rows with different means and a
\* non-zero off-diagonal entry.
C10_Witness ==
    /\ h_call = "cal_convariance"
    /\ Len(h_in) >= 2
    /\ Mean(h_in[1]) # Mean(h_in[2])
    /\ gamma[1][2] # Fin(0)
    /\ gamma[1][2] = gamma[2][1]

\* ------------------------------------------------------ claims on ingestion
Units == {<<s, d>> : s \in 1..i_in.n_symbols, d \in 1..i_in.n_dates}

\* The rows of the valid dates of symbol s, in date order.
RECURSIVE ValidRows(_, _)
ValidRows(s, d) ==
    IF d > i_in.n_dates THEN << >>
    ELSE (IF <<s, d>> \in i_valid THEN <<(<<s, d>>)>> ELSE << >>) \o ValidRows(s, d + 1)

\* C9: a failing unit is reported and skipped and the run goes on: every unit
\* read so far is either valid or reported; a symbol the loop is through with
\* has an output file exactly if one of its units was valid, holding exactly
\* the rows of its valid units in order; and a run whose output directory
\* could be made ends only after every unit has been read.
C9_FailuresIsolated ==
    i_pc \in {"loop", "done"} /\ i_in.script # "" =>
        /\ i_reported = i_seen \ i_valid
        /\ \A s \in 1..i_in.n_symbols :
               IF s < i_sym
               THEN /\ \A d \in 1..i_in.n_dates : <<s, d>> \in i_seen
                    /\ out_files[s].written <=> (\E d \in 1..i_in.n_dates : <<s, d>> \in i_valid)
                    /\ out_files[s].rows = ValidRows(s, 1)
               ELSE out_files[s] = NoOutput
        /\ i_pc = "done" /\ i_seen # {} => i_seen = Units

\* C9, the daily script: the run is over, the first symbol failed and has no
\* output, a later symbol was valid and has its file.
C9_WitnessDaily ==
    /\ i_pc = "done"
    /\ i_in.script = "daily"
    /\ <<1, 1>> \in i_reported
    /\ ~out_files[1].written
    /\ <<2, 1>> \in i_valid
    /\ out_files[2].written

\* C9 witness, the minute script: the run is over, the first date of the first symbol
\* failed, its second date was valid and is the symbol's only output row.
C9_Witness ==
    /\ i_pc = "done"
    /\ i_in.script = "minute"
    /\ <<1, 1>> \in i_reported
    /\ out_files[1] = Written(<<(<<1, 2>>)>>)

====
